---- MODULE Spec2Model ----
(***************************************************************************)
(* Model of camera_monitor.py: monitor_camera() spawns `log stream` with   *)
(* both of its output pipes captured, reads the child's standard output    *)
(* line by line, and prints a status message for the lines that mention    *)
(* the Insta360 device together with addInput: or removeInput:.            *)
(*                                                                         *)
(* A line is a sequence of words ending in the newline word; the empty     *)
(* sequence is what readline() returns at end of stream.  The timestamp    *)
(* of a status message is not modelled: a message is its kind.             *)
(***************************************************************************)
EXTENDS Integers, Sequences, FiniteSets, TLC

\* ------------------------------------------------------------ bounds
\* words of a line before its newline
MaxTokens == 3
\* lines the child writes to standard output in one run
MaxLines == 2
\* writes the standard-error pipe holds before a further write blocks
StderrCap == 2

\* ------------------------------------------------------------ text
NL == "\n"
DEVICE == <<"Insta360">>
ADD == <<"addInput:">>
REMOVE == <<"removeInput:">>
Words == {"Insta360", "addInput:", "removeInput:", "Logitech"}

RECURSIVE SeqsUpTo(_, _)
SeqsUpTo(S, n) ==
    IF n = 0 THEN {<<>>}
    ELSE LET shorter == SeqsUpTo(S, n - 1)
         IN  shorter \cup {Append(s, w) : s \in shorter, w \in S}

\* what readline() can return while the stream is open: a body and its newline
Lines == {Append(body, NL) : body \in SeqsUpTo(Words, MaxTokens)}
\* what readline() returns at end of stream
EOF == <<>>
\* the local `line` before the first assignment
Unbound == <<"<unbound>">>

\* `needle in line`
Contains(l, needle) ==
    \E i \in 1..(Len(l) - Len(needle) + 1) :
        SubSeq(l, i, i + Len(needle) - 1) = needle

\* `not line`
IsEOFStripped(l) == \A i \in 1..Len(l) : l[i] = NL
IsEOF(l) == Len(l) = 0

\* ------------------------------------------------------------ messages
BANNER == <<"Starting", "Looking", "PressCtrlC">>
STARTED == "STARTED (Active)"
STOPPED == "STOPPED (Inactive)"
STOPPING == "Stopping monitor..."
ERROR == "Error"

\* the messages the if/elif of one loop iteration prints for a line
ClassifyRemoveFirst(l) ==
    IF Contains(l, DEVICE)
    THEN IF Contains(l, REMOVE) THEN <<STOPPED>>
         ELSE IF Contains(l, ADD) THEN <<STARTED>>
         ELSE <<>>
    ELSE <<>>
ClassifyElifDedented(l) ==
    IF Contains(l, DEVICE)
    THEN IF Contains(l, ADD) THEN <<STARTED>> ELSE <<>>
    ELSE IF Contains(l, REMOVE) THEN <<STOPPED>>
    ELSE <<>>
ClassifyAnyDevice(l) ==
    IF Contains(l, ADD) THEN <<STARTED>>
    ELSE IF Contains(l, REMOVE) THEN <<STOPPED>>
    ELSE <<>>
Classify(l) ==
    IF Contains(l, DEVICE)
    THEN IF Contains(l, ADD) THEN <<STARTED>>
         ELSE IF Contains(l, REMOVE) THEN <<STOPPED>>
         ELSE <<>>
    ELSE <<>>

\* standard output after one loop iteration has handled line l
EmitDedup(o, l) ==
    IF Classify(l) # <<>> /\ o # <<>> /\ o[Len(o)] = Classify(l)[1]
    THEN o
    ELSE o \o Classify(l)
Emit(o, l) == o \o Classify(l)

\* ------------------------------------------------------------ state
VARIABLES
    pc,             \* where monitor_camera is
    exc,            \* the exception that left monitor_camera, if one did
    caught,         \* the exception the try statement caught, if any
    line,           \* the local `line`
    out,            \* what the monitor has printed
    nRead,          \* lines read from the child so far
    child,          \* "none", "running" or "exited"
    childBlocked,   \* the child is stuck in a write to its full stderr pipe
    stderrFill,     \* unread writes sitting in the stderr pipe
    signalled,      \* SIGTERM has been sent to the child
    terminateCalls  \* calls of process.terminate()

vars == <<pc, exc, caught, line, out, nRead, child, childBlocked,
          stderrFill, signalled, terminateCalls>>

monitorVars == <<pc, exc, caught, line, out, nRead, terminateCalls>>
childVars == <<child, childBlocked, stderrFill, signalled>>

Init ==
    /\ pc = "start"
    /\ exc = "none"
    /\ caught = "none"
    /\ line = Unbound
    /\ out = <<>>
    /\ nRead = 0
    /\ child = "none"
    /\ childBlocked = FALSE
    /\ stderrFill = 0
    /\ signalled = FALSE
    /\ terminateCalls = 0

\* ------------------------------------------------------------ the monitor
\* lines 6-8: the three banner prints
Start ==
    /\ pc = "start"
    /\ out' = out \o BANNER
    /\ pc' = "spawn"
    /\ UNCHANGED <<exc, caught, line, nRead, terminateCalls, childVars>>

\* line 16: Popen succeeds; the try statement is entered
Spawn ==
    /\ pc = "spawn"
    /\ child' = "running"
    /\ pc' = "read"
    /\ UNCHANGED <<exc, caught, line, out, nRead, terminateCalls,
                   childBlocked, stderrFill, signalled>>

\* line 16: Popen raises (no `log` command); nothing encloses the call
SpawnFails ==
    /\ pc = "spawn"
    /\ pc' = "raised"
    /\ exc' = "SpawnError"
    /\ UNCHANGED <<caught, line, out, nRead, terminateCalls, childVars>>

\* lines 20-22: the assignment of readline()'s result and the test on it
ReadResult(l) ==
    /\ line' = l
    /\ pc' = IF IsEOF(l) THEN "returned" ELSE "classify"

\* line 20: the running child writes a line, readline() returns it
ReadLine ==
    /\ pc = "read"
    /\ child = "running"
    /\ ~childBlocked
    /\ nRead < MaxLines
    /\ \E l \in Lines : ReadResult(l)
    /\ nRead' = nRead + 1
    /\ UNCHANGED <<exc, caught, out, terminateCalls, childVars>>

\* line 20: the child's end of the pipe is closed, readline() returns ""
ReadEOF ==
    /\ pc = "read"
    /\ child = "exited"
    /\ ReadResult(EOF)
    /\ UNCHANGED <<exc, caught, out, nRead, terminateCalls, childVars>>

\* line 20: readline() raises (undecodable bytes, an OS error)
ReadError ==
    /\ pc = "read"
    /\ caught' = "Exception"
    /\ pc' = "errHandler"
    /\ UNCHANGED <<exc, line, out, nRead, terminateCalls, childVars>>

\* lines 25-33: the rest of the iteration, back to the read
ClassifyLine ==
    /\ pc = "classify"
    /\ out' = Emit(out, line)
    /\ pc' = "read"
    /\ UNCHANGED <<exc, caught, line, nRead, terminateCalls, childVars>>

\* lines 28, 32: the print of a status message raises (a closed or
\* non-UTF-8 standard output); the message is not written
ClassifyError ==
    /\ pc = "classify"
    /\ Classify(line) # <<>>
    /\ caught' = "Exception"
    /\ pc' = "errHandler"
    /\ UNCHANGED <<exc, line, out, nRead, terminateCalls, childVars>>

\* process.terminate(): SIGTERM to a child that has not been reaped; the
\* kill may fail, and then terminate() raises
Terminate(ok) ==
    /\ terminateCalls' = terminateCalls + 1
    /\ signalled' = (signalled \/ (ok /\ child = "running"))
    /\ (~ok) => child = "running"

\* lines 35-37: except KeyboardInterrupt
KbHandler ==
    /\ pc = "kbHandler"
    /\ out' = Append(out, STOPPING)
    /\ \E ok \in BOOLEAN :
        /\ Terminate(ok)
        /\ pc' = IF ok THEN "returned" ELSE "raised"
        /\ exc' = IF ok THEN exc ELSE "TerminateError"
    /\ UNCHANGED <<caught, line, nRead, child, childBlocked, stderrFill>>

\* lines 38-40: except Exception
ErrHandler ==
    /\ pc = "errHandler"
    /\ out' = Append(out, ERROR)
    /\ \E ok \in BOOLEAN :
        /\ Terminate(ok)
        /\ pc' = IF ok THEN "returned" ELSE "raised"
        /\ exc' = IF ok THEN exc ELSE "TerminateError"
    /\ UNCHANGED <<caught, line, nRead, child, childBlocked, stderrFill>>

\* ------------------------------------------------------------ Ctrl+C
\* lines 6-16: KeyboardInterrupt before the try statement; Popen may or
\* may not have created the child already
InterruptBeforeTry ==
    /\ pc \in {"start", "spawn"}
    /\ \E forked \in BOOLEAN :
        /\ forked => pc = "spawn"
        /\ child' = IF forked THEN "running" ELSE child
    /\ pc' = "raised"
    /\ exc' = "KeyboardInterrupt"
    /\ UNCHANGED <<caught, line, out, nRead, terminateCalls,
                   childBlocked, stderrFill, signalled>>

\* line 20: KeyboardInterrupt in the blocking read
InterruptRead ==
    /\ pc = "read"
    /\ caught' = "KeyboardInterrupt"
    /\ pc' = "kbHandler"
    /\ UNCHANGED <<exc, line, out, nRead, terminateCalls, childVars>>

\* lines 25-33: KeyboardInterrupt in the rest of the iteration, before or
\* after the status message is written
InterruptClassify ==
    /\ pc = "classify"
    /\ \E printed \in BOOLEAN : out' = IF printed THEN Emit(out, line) ELSE out
    /\ caught' = "KeyboardInterrupt"
    /\ pc' = "kbHandler"
    /\ UNCHANGED <<exc, line, nRead, terminateCalls, childVars>>

\* lines 36-37, 39-40: KeyboardInterrupt inside a handler, before or after
\* its print and before its terminate(); no except clause covers a handler
InterruptHandler ==
    /\ pc \in {"kbHandler", "errHandler"}
    /\ \E printed \in BOOLEAN :
        out' = IF printed
               THEN Append(out, IF pc = "kbHandler" THEN STOPPING ELSE ERROR)
               ELSE out
    /\ pc' = "raised"
    /\ exc' = "KeyboardInterrupt"
    /\ UNCHANGED <<caught, line, nRead, terminateCalls, childVars>>

\* ------------------------------------------------------------ the child
\* the child writes to standard error; line 16 makes it a pipe, and no
\* line of monitor_camera reads it
ChildWriteStderr ==
    /\ child = "running"
    /\ ~childBlocked
    /\ stderrFill < StderrCap
    /\ stderrFill' = stderrFill + 1
    /\ UNCHANGED <<monitorVars, child, childBlocked, signalled>>

\* the child writes to standard error when the pipe is full: it blocks
ChildBlockStderr ==
    /\ child = "running"
    /\ ~childBlocked
    /\ stderrFill = StderrCap
    /\ childBlocked' = TRUE
    /\ UNCHANGED <<monitorVars, child, stderrFill, signalled>>

\* the child exits by itself
ChildExit ==
    /\ child = "running"
    /\ ~childBlocked
    /\ child' = "exited"
    /\ UNCHANGED <<monitorVars, childBlocked, stderrFill, signalled>>

\* the child dies of the SIGTERM of terminate()
ChildKilled ==
    /\ child = "running"
    /\ signalled
    /\ child' = "exited"
    /\ childBlocked' = FALSE
    /\ UNCHANGED <<monitorVars, stderrFill, signalled>>

Next ==
    \/ Start
    \/ Spawn
    \/ SpawnFails
    \/ ReadLine
    \/ ReadEOF
    \/ ReadError
    \/ ClassifyLine
    \/ ClassifyError
    \/ KbHandler
    \/ ErrHandler
    \/ InterruptBeforeTry
    \/ InterruptRead
    \/ InterruptClassify
    \/ InterruptHandler
    \/ ChildWriteStderr
    \/ ChildBlockStderr
    \/ ChildExit
    \/ ChildKilled

Spec == Init /\ [][Next]_vars

TypeOK ==
    /\ pc \in {"start", "spawn", "read", "classify", "kbHandler",
               "errHandler", "returned", "raised"}
    /\ exc \in {"none", "SpawnError", "KeyboardInterrupt", "TerminateError"}
    /\ caught \in {"none", "KeyboardInterrupt", "Exception"}
    /\ line \in Lines \cup {EOF, Unbound}
    /\ nRead \in 0..MaxLines
    /\ child \in {"none", "running", "exited"}
    /\ childBlocked \in BOOLEAN
    /\ stderrFill \in 0..StderrCap
    /\ signalled \in BOOLEAN
    /\ terminateCalls \in 0..1

\* ------------------------------------------------------------ properties
Events(o) == SelectSeq(o, LAMBDA m : m \in {STARTED, STOPPED})
Count(o, m) == Len(SelectSeq(o, LAMBDA x : x = m))
IterationDone == pc = "classify" /\ pc' = "read"

\* C1: an iteration that handles a line containing "Insta360" and
\* "addInput:" prints exactly one STARTED message and nothing else, whether
\* or not the line also contains "removeInput:".
C1_AddPrintsStarted ==
    [][(IterationDone /\ Contains(line, DEVICE) /\ Contains(line, ADD))
        => out' = Append(out, STARTED)]_vars

\* a line with all three markers has been handled and STARTED is the last
\* message printed
C1_Witness ==
    /\ pc = "read"
    /\ Contains(line, DEVICE) /\ Contains(line, ADD) /\ Contains(line, REMOVE)
    /\ out[Len(out)] = STARTED

\* C2: an iteration that handles a line containing "Insta360" and
\* "removeInput:" but not "addInput:" prints exactly one STOPPED message and
\* nothing else.
C2_RemovePrintsStopped ==
    [][(IterationDone /\ Contains(line, DEVICE) /\ Contains(line, REMOVE)
          /\ ~Contains(line, ADD))
        => out' = Append(out, STOPPED)]_vars

\* a line with the device and the remove marker has been handled and
\* STOPPED is the last message printed
C2_Witness ==
    /\ pc = "read"
    /\ Contains(line, DEVICE) /\ Contains(line, REMOVE) /\ ~Contains(line, ADD)
    /\ out[Len(out)] = STOPPED

\* C3: while the line in hand does not contain "Insta360" nothing is
\* printed, whatever else the line contains, and the iteration that handles
\* it changes nothing but the position of the loop.
C3_OtherDeviceSilent ==
    [][(pc = "classify" /\ ~Contains(line, DEVICE))
        => /\ out' = out
           /\ pc' = "read" =>
                UNCHANGED <<exc, caught, line, nRead, terminateCalls>>]_vars

\* a line with both markers and no device name has been handled after an
\* earlier status message, and nothing was printed for it
C3_Witness ==
    /\ pc = "read"
    /\ ~Contains(line, DEVICE) /\ Contains(line, ADD) /\ Contains(line, REMOVE)
    /\ nRead = 2
    /\ Len(out) = Len(BANNER) + 1

\* C4: monitor_camera never returns after a successful spawn without
\* having called terminate on the child, end of stream included.
C4_TerminateBeforeReturn == pc = "returned" => terminateCalls >= 1

\* C5: once an error other than an interrupt was raised in the loop, the
\* monitor ends by returning, with exactly one error message printed and
\* terminate called exactly once.
C5_ErrorHandledOnce ==
    (caught = "Exception" /\ pc \in {"returned", "raised"})
        => /\ pc = "returned"
           /\ Count(out, ERROR) = 1
           /\ terminateCalls = 1

\* C6: an error raised by terminate() in a handler never leaves
\* monitor_camera.
C6_TerminateErrorCaught == ~(pc = "raised" /\ exc = "TerminateError")

\* C7: an interrupt delivered after the child was spawned never leaves
\* monitor_camera: it ends in a return with "Stopping monitor..." printed
\* and terminate called.
C7_InterruptCaught ==
    /\ ~(child # "none" /\ pc = "raised" /\ exc = "KeyboardInterrupt")
    /\ (caught = "KeyboardInterrupt" /\ pc \in {"returned", "raised"})
         => /\ pc = "returned"
            /\ Count(out, STOPPING) = 1
            /\ terminateCalls = 1

\* C8: a read that returns the empty string ends monitor_camera by a
\* return, with no error message and no "Stopping monitor..." message
\* printed; a read that returns a blank line goes on to the rest of the
\* iteration.
C8_EndOfStream ==
    /\ [](line = EOF
            => /\ pc = "returned"
               /\ Count(out, ERROR) = 0
               /\ Count(out, STOPPING) = 0)
    /\ [][(pc = "read" /\ line' = EOF) => (pc' = "returned" /\ out' = out)]_vars
    /\ [][(pc = "read" /\ nRead' = nRead + 1 /\ line' = <<NL>>)
            => pc' = "classify"]_vars

\* the stream ended after at least one line was read, and the monitor
\* returned having printed the banner only
C8_Witness ==
    /\ line = EOF
    /\ pc = "returned"
    /\ nRead >= 1
    /\ out = BANNER

\* C9: the status messages printed are, in order, one per matching line
\* handled: every iteration appends the message of its own line whatever was
\* printed before, and no other step of a running loop prints a status
\* message.
C9_NoDeduplication ==
    [][/\ IterationDone =>
            Events(out') = Events(out) \o
                (IF Contains(line, DEVICE) /\ Contains(line, ADD)
                 THEN <<STARTED>>
                 ELSE IF Contains(line, DEVICE) /\ Contains(line, REMOVE)
                 THEN <<STOPPED>>
                 ELSE <<>>)
       /\ pc # "classify" => Events(out') = Events(out)]_vars

\* two STARTED messages in a row, with no STOPPED between them
C9_Witness ==
    /\ pc = "read"
    /\ Len(Events(out)) >= 2
    /\ Events(out)[1] = STARTED
    /\ Events(out)[2] = STARTED

\* C10: the monitor never waits for a line that the running child cannot
\* write because the child is blocked on its standard-error pipe.
C10_NoPipeDeadlock ==
    ~(/\ pc = "read"
      /\ child = "running"
      /\ nRead < MaxLines
      /\ childBlocked)

====
